---- MODULE Spec2Model ----
(***************************************************************************)
(* State-machine model of the MPF-Nixie firmware (src/nixie.ino): the      *)
(* serial line framer of loop(), the command dispatcher handleLine /       *)
(* parseNLine, the tube store, the renderer and the attract tick.          *)
(*                                                                         *)
(* A character is a one-character string; a line is a sequence of          *)
(* characters.  One loop() call is a run of steps in program order: the    *)
(* serial reader (ReadByte, one byte per step), the idle check (IdleFlush, *)
(* taken when no byte is available) and the attract block (AttractTick);   *)
(* pc is the position of the firmware in loop().                           *)
(***************************************************************************)
EXTENDS Integers, Sequences, FiniteSets, TLC

\* ---------------------------------------------------------------- Config
NUM_TUBES == 6
ATTRACT_DIM == 0
ATTRACT_MS == 50
IDLE_PARSE_MS == 30
\* sizeof(buf)
BUF_SIZE == 192
\* delay(250) in setup(): millis() when setup() returns
BOOT_MS == 250

\* ---------------------------------------------------------------- Bounds
\* the clock advances in steps of TickMs, for at most MaxElapsed ms after boot
TickMs == 10
MaxElapsed == 50
\* the clock of the attract-timing specification runs for MaxElapsedAttract ms
MaxElapsedAttract == 120
\* number of messages the host sends
MaxSends == 2
\* the attract tick draws its six digits from MaxSeed + 1 sample vectors
MaxSeed == 1

Tubes == 0 .. (NUM_TUBES - 1)

CR == "\r"
LF == "\n"
TAB == "\t"
SP == " "

DigitChars == <<"0", "1", "2", "3", "4", "5", "6", "7", "8", "9">>

IsDigit(c) == \E i \in 1..10 : DigitChars[i] = c

DigitValue(c) == (CHOOSE i \in 1..10 : DigitChars[i] = c) - 1

\* (uint8_t)v on an int
U8(v) == v % 256

\* ---------------------------------------------------------------- Helpers
\* clamp255 without the lower bound
clamp255Unsigned(v) == IF v > 255 THEN 255 ELSE v

clamp255(v) == IF v < 0 THEN 0 ELSE IF v > 255 THEN 255 ELSE v

\* TubeState { digit, r, g, b, hv, comma, dim }
TubeState(d, r, g, b, hv, comma, dim) ==
    [digit |-> d, r |-> r, g |-> g, b |-> b, hv |-> hv, comma |-> comma, dim |-> dim]

\* setTube with the r and b members initialised in the wrong order
setTubeSwapped(tb, i, d, r, g, b, hv, comma, dim) ==
    IF i < NUM_TUBES
    THEN [tb EXCEPT ![i] = TubeState(d, b, g, r, hv, comma, dim)]
    ELSE tb

\* setTube writing the brightness to every tube
setTubeDimAll(tb, i, d, r, g, b, hv, comma, dim) ==
    IF i < NUM_TUBES
    THEN [j \in DOMAIN tb |-> IF j = i THEN TubeState(d, r, g, b, hv, comma, dim)
                                        ELSE [tb[j] EXCEPT !.dim = dim]]
    ELSE tb

\* setTube: writes tubes[i] when i < NUM_TUBES, otherwise does nothing
setTube(tb, i, d, r, g, b, hv, comma, dim) ==
    IF i < NUM_TUBES
    THEN [tb EXCEPT ![i] = TubeState(d, r, g, b, hv, comma, dim)]
    ELSE tb

\* ---------------------------------------------------------------- rgbToEnum
\* the palette, in the order of the table in rgbToEnum
pal == << [r |-> 0,   g |-> 0,   b |-> 255, ev |-> "EASY_NIXIE_BLUE"],
          [r |-> 0,   g |-> 255, b |-> 0,   ev |-> "EASY_NIXIE_GREEN"],
          [r |-> 255, g |-> 0,   b |-> 0,   ev |-> "EASY_NIXIE_RED"],
          [r |-> 255, g |-> 255, b |-> 255, ev |-> "EASY_NIXIE_WHITE"],
          [r |-> 255, g |-> 0,   b |-> 255, ev |-> "EASY_NIXIE_RuB"],
          [r |-> 255, g |-> 255, b |-> 0,   ev |-> "EASY_NIXIE_RuG"],
          [r |-> 0,   g |-> 255, b |-> 255, ev |-> "EASY_NIXIE_BuG"] >>

\* The board is an Arduino Nano: int has 16 bits, and dr*dr, dg*dg, db*db are int
\* products.  A difference of 182 or more in absolute value has a square above
\* INT_MAX: signed overflow, undefined behaviour.  The outcomes a compiler
\* produces for it:
\*   "wide"  the product is formed in 32 bits (a widening multiply): d*d
\*   "wrap"  the product is formed in 16 bits and wraps; uint32_t(..) sign-extends
\* (a wrapped product extended with zeros is d*d again, since 255*255 < 2^16).
\* Every call of rgbToEnum takes one of them, bd; a step that calls it may take
\* either, which covers every build.
Builds == {"wide", "wrap"}

INT_MAX == 32767
W16 == 65536

\* A uint32_t is the pair <<high half, low half>> of its 16-bit halves.
\* uint32_t(d*d) for an int d in -255..255
sq32(bd, d) ==
    IF d * d <= INT_MAX \/ bd = "wide" THEN <<0, d * d>> ELSE <<W16 - 1, d * d>>

\* x + y on uint32_t
add32(x, y) == <<(x[1] + y[1] + ((x[2] + y[2]) \div W16)) % W16, (x[2] + y[2]) % W16>>

\* x < y on uint32_t
lt32(x, y) == x[1] < y[1] \/ (x[1] = y[1] /\ x[2] < y[2])

\* d of the nearest-colour loop for palette entry i:
\* uint32_t(dr*dr) + uint32_t(dg*dg) + uint32_t(db*db)
palDist(bd, i, r, g, b) ==
    add32(add32(sq32(bd, r - pal[i].r), sq32(bd, g - pal[i].g)), sq32(bd, b - pal[i].b))

\* bestD = 0xFFFFFFFF
BEST_D_INIT == <<W16 - 1, W16 - 1>>

\* the nearest-colour loop from entry i on, with the best distance and entry so far
RECURSIVE nearestFrom(_, _, _, _, _, _, _)
nearestFrom(bd, i, r, g, b, bestD, bestE) ==
    IF i > Len(pal) THEN bestE
    ELSE IF lt32(palDist(bd, i, r, g, b), bestD)
         THEN nearestFrom(bd, i + 1, r, g, b, palDist(bd, i, r, g, b), pal[i].ev)
         ELSE nearestFrom(bd, i + 1, r, g, b, bestD, bestE)

\* rgbToEnum(r, g, b) on a build of outcome bd
rgbToEnum(bd, r, g, b) ==
    IF \E i \in 1..Len(pal) : pal[i].r = r /\ pal[i].g = g /\ pal[i].b = b
    THEN pal[CHOOSE i \in 1..Len(pal) :
               /\ pal[i].r = r /\ pal[i].g = g /\ pal[i].b = b
               /\ \A j \in 1..(i - 1) : ~(pal[j].r = r /\ pal[j].g = g /\ pal[j].b = b)].ev
    ELSE nearestFrom(bd, 1, r, g, b, BEST_D_INIT, pal[1].ev)

\* ---------------------------------------------------------------- render
\* the digit handed to the transport for tube state t
shown(t) == IF t.hv /\ t.digit <= 9 THEN t.digit ELSE 0

\* nixie.SetNixie(shown, col, hv, comma, dim) for tube i (tube: which tube the call is for)
SetNixieCall(bd, tb, i) ==
    [op |-> "SetNixie", tube |-> i, number |-> shown(tb[i]),
     color |-> rgbToEnum(bd, tb[i].r, tb[i].g, tb[i].b),
     voltage |-> tb[i].hv, comma |-> tb[i].comma, dimming |-> tb[i].dim]

LatchCall == [op |-> "Latch"]

\* render running the chain nearest tube first
renderNearestFirst(bd, tb) ==
    [k \in 1..NUM_TUBES |-> SetNixieCall(bd, tb, k - 1)] \o <<LatchCall>>

\* the transport calls of one render(): tubes NUM_TUBES-1 down to 0, then Latch
render(bd, tb) ==
    [k \in 1..NUM_TUBES |-> SetNixieCall(bd, tb, NUM_TUBES - k)] \o <<LatchCall>>

\* ---------------------------------------------------------------- Trim helpers
IsTrailing(c) == c \in {CR, LF, SP, TAB}

RECURSIVE rtrim(_)
rtrim(s) ==
    IF Len(s) > 0 /\ IsTrailing(s[Len(s)]) THEN rtrim(SubSeq(s, 1, Len(s) - 1)) ELSE s

RECURSIVE ltrim(_)
ltrim(s) ==
    IF Len(s) > 0 /\ Head(s) \in {SP, TAB} THEN ltrim(Tail(s)) ELSE s

\* ---------------------------------------------------------------- strtok_r, atoi
\* length of the longest prefix of s without a comma
RECURSIVE tokLen(_)
tokLen(s) == IF s = <<>> \/ Head(s) = "," THEN 0 ELSE 1 + tokLen(Tail(s))

\* the successive results of strtok_r(.., ",", &save) on s: leading delimiters are
\* skipped, so the tokens are the non-empty comma-free runs of s, in order
RECURSIVE strtok(_)
strtok(s) ==
    IF s = <<>> THEN <<>>
    ELSE IF Head(s) = "," THEN strtok(Tail(s))
    ELSE <<SubSeq(s, 1, tokLen(s))>> \o strtok(SubSeq(s, tokLen(s) + 1, Len(s)))

\* isspace() of the C locale, over the characters of the model
IsSpace(c) == c \in {SP, TAB, CR, LF}

RECURSIVE skipSpace(_)
skipSpace(s) == IF Len(s) > 0 /\ IsSpace(Head(s)) THEN skipSpace(Tail(s)) ELSE s

\* the value of the leading decimal digits of s, continuing from acc
RECURSIVE digitsValue(_, _)
digitsValue(s, acc) ==
    IF s = <<>> \/ ~IsDigit(Head(s)) THEN acc
    ELSE digitsValue(Tail(s), acc * 10 + DigitValue(Head(s)))

\* atoi: optional white space, optional sign, then digits up to the first other
\* character; 0 when there is no digit.  Inputs stay within the range of int.
atoi(s) ==
    LET t == skipSpace(s)
    IN  IF t = <<>> THEN 0
        ELSE IF Head(t) = "-" THEN 0 - digitsValue(Tail(t), 0)
        ELSE IF Head(t) = "+" THEN digitsValue(Tail(t), 0)
        ELSE digitsValue(t, 0)

\* ---------------------------------------------------------------- parseNLine
\* The firmware state a command handler reads and writes:
\*   tubes, gotFirstCommand, pwm (the duty last written by setBrightness),
\*   out (lines printed on Serial), calls (transport calls issued)
Machine(tb, got, duty, o, c) ==
    [tubes |-> tb, gotFirstCommand |-> got, pwm |-> duty, out |-> o, calls |-> c]

\* setBrightness taking dim as a change of the duty
setBrightnessRelative(m, dim) == [m EXCEPT !.pwm = (m.pwm + dim) % 256]

\* setBrightness(dim): analogWrite(PIN_OUT_EN, dim)
setBrightness(m, dim) == [m EXCEPT !.pwm = dim]

\* uint8_t idx = (uint8_t)f[0]; if (idx >= NUM_TUBES) return false;
idxRejected(f0) == U8(f0) >= NUM_TUBES

\* hv always on
hvOfAlways(digit) == TRUE

\* bool hv = (digit <= 9)
hvOf(digit) == digit <= 9

\* the digit stored whatever hv is
storedDigitRaw(digit, hv) == digit

\* hv ? digit : 0
storedDigit(digit, hv) == IF hv THEN digit ELSE 0

\* the part of parseNLine after the six fields f[1..6] are read
applyFields(m, f) ==
    LET idx   == U8(f[1])
        digit == U8(f[2])
        r     == U8(clamp255(f[3]))
        g     == U8(clamp255(f[4]))
        b     == U8(clamp255(f[5]))
        dim   == U8(f[6])
    IN  IF idxRejected(f[1]) THEN [ok |-> FALSE, m |-> m]
        ELSE LET hv == hvOf(digit)
                 m1 == setBrightness([m EXCEPT !.gotFirstCommand = TRUE], dim)
                 tb == setTube(m1.tubes, idx, storedDigit(digit, hv), r, g, b, hv, FALSE, dim)
             IN  [ok |-> TRUE,
                  m  |-> [m1 EXCEPT !.tubes = tb, !.calls = m1.calls \o render(m.build, tb)]]

\* parseNLine(p): the first token (the directive) is eaten, the next six are the
\* fields; fewer than six fields: return false with nothing changed
parseNLine(p, m) ==
    LET toks == strtok(p)
    IN  IF Len(toks) < 7 THEN [ok |-> FALSE, m |-> m]
        ELSE applyFields(m, [i \in 1..6 |-> atoi(ltrim(toks[i + 1]))])

\* ---------------------------------------------------------------- handleLine
println(m, text) == [m EXCEPT !.out = Append(m.out, text)]

FISH == "so long and thanks for all the fish"
RESUMED == "Attract mode resumed"
ERR_PARSE == "ERR parse N line"
ERR_OVERFLOW == "ERR buffer overflow"

\* the easter egg, also touching the display
easterEggBlank(m) ==
    println([m EXCEPT !.tubes = [i \in Tubes |-> [m.tubes[i] EXCEPT !.hv = FALSE]]], FISH)

\* the "42" branch of handleLine
easterEgg(m) == println(m, FISH)

\* the 'A' branch also showing the attract colour at once
resumeAttractRepaint(m) ==
    println([m EXCEPT !.gotFirstCommand = FALSE,
                      !.tubes = [i \in Tubes |-> [m.tubes[i] EXCEPT !.r = 255, !.g = 0, !.b = 0]],
                      !.calls = render(m.build, [i \in Tubes |-> [m.tubes[i] EXCEPT !.r = 255, !.g = 0, !.b = 0]])],
            RESUMED)

\* the 'A' branch of handleLine
resumeAttract(m) == println([m EXCEPT !.gotFirstCommand = FALSE], RESUMED)

\* the 'N' branch of handleLine
normalUpdate(p, m) ==
    LET res == parseNLine(p, m)
    IN  IF res.ok THEN res.m ELSE println(m, ERR_PARSE)

handleLine(raw, m) ==
    LET p == ltrim(rtrim(raw))
    IN  IF p = <<>> THEN m
        ELSE IF Len(p) = 2 /\ p[1] = "4" /\ p[2] = "2" THEN easterEgg(m)
        ELSE IF Len(p) = 1 /\ p[1] \in {"A", "a"} THEN resumeAttract(m)
        ELSE IF p[1] \in {"N", "n"} THEN normalUpdate(p, m)
        ELSE m

\* ---------------------------------------------------------------- The host
\* decimal text of a number, as the host formats a field
RECURSIVE decDigits(_)
decDigits(n) ==
    IF n < 10 THEN <<DigitChars[n + 1]>>
    ELSE Append(decDigits(n \div 10), DigitChars[(n % 10) + 1])

Dec(n) == IF n < 0 THEN <<"-">> \o decDigits(0 - n) ELSE decDigits(n)

\* the line N,idx,digit,r,g,b,dim
NLine(a) ==
    <<"N">> \o <<",">> \o Dec(a[1]) \o <<",">> \o Dec(a[2]) \o <<",">> \o Dec(a[3])
            \o <<",">> \o Dec(a[4]) \o <<",">> \o Dec(a[5]) \o <<",">> \o Dec(a[6])

IdxVals == {-1, 0, 2, 5, 6, 9, 256}
DigitVals == {-1, 0, 9, 10, 15, 256}
Colours == {<<255, 0, 0>>, <<0, 255, 255>>, <<10, 10, 10>>, <<-5, 300, 128>>, <<256, -1, 255>>}
DimVals == {0, 10, 255, 300}

\* the field tuples <<idx, digit, r, g, b, dim>> the host sends
NArgs ==
    {<<i, 5, 255, 0, 0, 0>> : i \in IdxVals}
      \cup {<<0, d, 10, 10, 10, 0>> : d \in DigitVals}
      \cup {<<5, 9, c[1], c[2], c[3], 10>> : c \in Colours}
      \cup {<<2, 5, 255, 0, 0, d>> : d \in DimVals}

\* the line of each field tuple, formatted once
NLineOf == [a \in NArgs |-> NLine(a)]

NLines == {NLineOf[a] : a \in NArgs}

\* lines that are not well-formed N commands
OtherLines ==
    { <<"A">>, <<"a">>, <<SP, "A", TAB>>, <<"4", "2">>, <<TAB, "4", "2", SP>>, <<"4", "2", "0">>,
      <<"X">>, <<"A", "B">>,
      <<"N">>, <<"N", ",", "1", ",", "2">>,
      <<"n", ",", "1", ",", "7", ",", "0", ",", "0", ",", "9", ",", "3">> }

\* every line is sent ended by LF; some also ended by CR LF, or not ended at all
CrLfLines == {NLine(<<0, 15, 10, 10, 10, 0>>), <<"A">>, <<"4", "2">>}
OpenLines == {NLine(<<2, 5, 255, 0, 0, 0>>), NLine(<<9, 5, 255, 0, 0, 0>>), <<"A">>, <<"4", "2">>}

Messages ==
    {l \o <<LF>> : l \in NLines \cup OtherLines}
      \cup {l \o <<CR, LF>> : l \in CrLfLines}
      \cup OpenLines

\* ---------------------------------------------------------------- State
VARIABLES
    tubes,            \* TubeState tubes[NUM_TUBES]
    gotFirstCommand,  \* bool gotFirstCommand
    buf,              \* buf[0 .. blen-1]; blen is Len(buf)
    lastByteAt,       \* unsigned long lastByteAt
    lastAttract,      \* unsigned long lastAttract
    pwm,              \* the duty last written by analogWrite(PIN_OUT_EN, ..)
    now,              \* millis()
    rx,               \* bytes received and not yet read: Serial.available() is Len(rx)
    pc,               \* position in loop(): "serial" (the reader and the idle flush) or "attract"
    out,              \* the lines the last step printed on Serial
    calls,            \* the transport calls the last step issued
    line,             \* the line the last step handed to handleLine, <<>> if none
    resumedAt,        \* millis() when the mode last went from Active to Attract with no
                      \* attract tick and no accepted N since; NEVER otherwise
    tickDelay,        \* now - resumedAt when the last step fired the attract tick with
                      \* resumedAt set; NEVER otherwise
    overflowed,       \* the line buffer has overflowed since boot
    lastN,            \* the line dispatched last, if it was an accepted N command and no
                      \* attract tick fired since; <<>> otherwise
    sent,             \* number of messages the host has sent
    suppressed,       \* the last step was the attract block, 50 ms or more after
                      \* lastAttract, and it fired no tick
    qIn,              \* the (r, g, b) handed to rgbToEnum on its own, <<>> if none
    qOut              \* what rgbToEnum returned for qIn, "" before the call

vars == <<tubes, gotFirstCommand, buf, lastByteAt, lastAttract, pwm, now, rx, pc,
          out, calls, line, resumedAt, tickDelay, overflowed, lastN, sent,
          suppressed, qIn, qOut>>

\* what the firmware never writes while it runs
fixed == <<qIn, qOut>>

blen == Len(buf)

\* no time: below every value of millis()
NEVER == 0 - 1

\* the six results of random(0, 10) of one attract pattern: a sample of the
\* 10^6 possible outcomes, one per seed
randomDigits(seed) == [i \in Tubes |-> (9 * seed + 3 * i) % 10]

\* the attract pattern in white
attractTubesWhite(seed) ==
    [i \in Tubes |-> TubeState(randomDigits(seed)[i], 255, 255, 255, TRUE, FALSE, ATTRACT_DIM)]

\* the attract pattern: every tube a random digit, red, lit, no comma, ATTRACT_DIM
attractTubes(seed) ==
    [i \in Tubes |-> TubeState(randomDigits(seed)[i], 255, 0, 0, TRUE, FALSE, ATTRACT_DIM)]

\* the state when setup() returns
Boot ==
    /\ \E seed \in 0..MaxSeed : tubes = attractTubes(seed)
    /\ gotFirstCommand = FALSE
    /\ buf = <<>>
    /\ lastByteAt = 0
    /\ now = BOOT_MS
    /\ lastAttract = BOOT_MS
    /\ pwm = ATTRACT_DIM
    /\ rx = <<>>
    /\ pc = "serial"
    /\ out = <<>>
    /\ \E bd \in Builds : calls = render(bd, tubes) \o render(bd, tubes)
    /\ line = <<>>
    /\ resumedAt = NEVER
    /\ tickDelay = NEVER
    /\ overflowed = FALSE
    /\ lastN = <<>>
    /\ sent = 0
    /\ suppressed = FALSE

Init == Boot /\ qIn = <<>> /\ qOut = ""

\* the firmware state seen by a handler entered in this step
Current == Machine(tubes, gotFirstCommand, pwm, <<>>, <<>>)

\* the same, for a handler that runs on a build of outcome bd
CurrentOn(bd) ==
    [tubes |-> tubes, gotFirstCommand |-> gotFirstCommand, pwm |-> pwm, out |-> <<>>,
     calls |-> <<>>, build |-> bd]

\* write back what a handler left
Store(m) ==
    /\ tubes' = m.tubes
    /\ gotFirstCommand' = m.gotFirstCommand
    /\ pwm' = m.pwm
    /\ out' = m.out
    /\ calls' = m.calls
    /\ resumedAt' = IF gotFirstCommand /\ ~m.gotFirstCommand THEN now
                    ELSE IF m.gotFirstCommand THEN NEVER
                    ELSE resumedAt
    /\ tickDelay' = NEVER

\* l starts with the directive N or n and handleLine printed no error for it in m
AcceptedN(l, m) ==
    /\ ltrim(rtrim(l)) # <<>>
    /\ Head(ltrim(rtrim(l))) \in {"N", "n"}
    /\ m.out = <<>>

\* buf[blen]=0; handleLine(buf); of the reader and of the idle flush
Dispatch(l) ==
    \E bd \in Builds :
       LET m == handleLine(l, CurrentOn(bd))
       IN  /\ Store(m)
           /\ line' = l
           /\ lastN' = IF AcceptedN(l, m) THEN l ELSE <<>>

\* ---------------------------------------------------------------- Environment
\* the host sends one message; its bytes arrive in the receive queue
Send(msg) ==
    /\ sent < MaxSends
    /\ rx = <<>>
    /\ rx' = msg
    /\ sent' = sent + 1
    /\ out' = <<>> /\ calls' = <<>> /\ line' = <<>> /\ tickDelay' = NEVER
    /\ suppressed' = FALSE
    /\ UNCHANGED <<tubes, gotFirstCommand, buf, lastByteAt, lastAttract, pwm, now, pc, resumedAt,
                   overflowed, lastN, fixed>>

\* the clock advances; the reader takes bytes as fast as they are available, so no
\* clock step passes while received bytes wait
Advance(limit) ==
    /\ rx = <<>>
    /\ now + TickMs <= BOOT_MS + limit
    /\ now' = now + TickMs
    /\ out' = <<>> /\ calls' = <<>> /\ line' = <<>> /\ tickDelay' = NEVER
    /\ suppressed' = FALSE
    /\ UNCHANGED <<tubes, gotFirstCommand, buf, lastByteAt, lastAttract, pwm, rx, pc, resumedAt,
                   overflowed, lastN, sent, fixed>>

Tick == Advance(MaxElapsed)

\* ---------------------------------------------------------------- loop()
\* blen + 1 < sizeof(buf), off by one
hasRoomFull(n) == n < BUF_SIZE

\* blen + 1 < sizeof(buf)
hasRoom(n) == n + 1 < BUF_SIZE

\* the overflow branch starting the next line with the byte that did not fit
overflowResetKeep(b, c) == <<c>>

\* blen = 0 in the overflow branch: the buffer after a byte c did not fit in b
overflowReset(b, c) == <<>>

\* the idle test with > for >=
idleExpiredStrict(t, last) == t - last > IDLE_PARSE_MS

\* (millis() - lastByteAt) >= IDLE_PARSE_MS
idleExpired(t, last) == t - last >= IDLE_PARSE_MS

\* the attract block ignoring the mode
inAttractAlways(got) == TRUE

\* if (!gotFirstCommand)
inAttract(got) == ~got

\* the attract test with > for >=
attractDueStrict(t, last) == t - last > ATTRACT_MS

\* now - lastAttract >= ATTRACT_MS
attractDue(t, last) == t - last >= ATTRACT_MS

\* the terminator test knowing LF only
isTerminatorLfOnly(c) == c = LF

\* c=='\n' || c=='\r'
isTerminator(c) == c = LF \/ c = CR

\* one iteration of while (Serial.available()): read a byte and frame it
ReadByte ==
    /\ pc = "serial"
    /\ rx # <<>>
    /\ rx' = Tail(rx)
    /\ lastByteAt' = now
    /\ LET c == Head(rx)
       IN  IF isTerminator(c)
           THEN IF blen # 0
                THEN /\ Dispatch(buf)
                     /\ buf' = <<>>
                     /\ UNCHANGED overflowed
                ELSE /\ Store(Current)
                     /\ line' = <<>>
                     /\ buf' = buf
                     /\ UNCHANGED <<overflowed, lastN>>
           ELSE IF hasRoom(blen)
                THEN /\ Store(Current)
                     /\ line' = <<>>
                     /\ buf' = Append(buf, c)
                     /\ UNCHANGED <<overflowed, lastN>>
                ELSE /\ Store(println(Current, ERR_OVERFLOW))
                     /\ line' = <<>>
                     /\ buf' = overflowReset(buf, c)
                     /\ overflowed' = TRUE
                     /\ UNCHANGED lastN
    /\ suppressed' = FALSE
    /\ UNCHANGED <<lastAttract, now, pc, sent, fixed>>

\* Serial.available() is 0: the reader is left and the idle flush is checked
IdleFlush ==
    /\ pc = "serial"
    /\ rx = <<>>
    /\ IF blen > 0 /\ idleExpired(now, lastByteAt)
       THEN /\ Dispatch(buf)
            /\ buf' = <<>>
       ELSE /\ Store(Current)
            /\ line' = <<>>
            /\ buf' = buf
            /\ UNCHANGED lastN
    /\ pc' = "attract"
    /\ suppressed' = FALSE
    /\ UNCHANGED <<lastByteAt, lastAttract, now, rx, overflowed, sent, fixed>>

\* the attract block at the end of loop(); loop() returns and is called again
AttractTick ==
    /\ pc = "attract"
    /\ IF inAttract(gotFirstCommand) /\ attractDue(now, lastAttract)
       THEN \E seed \in 0..MaxSeed, bd \in Builds :
               /\ tubes' = attractTubes(seed)
               /\ pwm' = ATTRACT_DIM
               /\ calls' = render(bd, tubes')
               /\ lastAttract' = now
               /\ resumedAt' = NEVER
               /\ tickDelay' = (IF resumedAt = NEVER THEN NEVER ELSE now - resumedAt)
               /\ lastN' = <<>>
       ELSE /\ calls' = <<>>
            /\ tickDelay' = NEVER
            /\ UNCHANGED <<tubes, pwm, lastAttract, resumedAt, lastN>>
    /\ out' = <<>>
    /\ line' = <<>>
    /\ pc' = "serial"
    /\ suppressed' = (gotFirstCommand /\ now - lastAttract >= ATTRACT_MS)
    /\ UNCHANGED <<gotFirstCommand, buf, lastByteAt, now, rx, overflowed, sent, fixed>>

Next ==
    \/ \E msg \in Messages : Send(msg)
    \/ Tick
    \/ ReadByte
    \/ IdleFlush
    \/ AttractTick

Spec == Init /\ [][Next]_vars

\* ---------------------------------------------------------------- Long lines
\* n bytes that are no terminator
Filler(n) == [i \in 1..n |-> "x"]

\* A host that sends over-long lines: a line of exactly sizeof(buf) bytes and one
\* three bytes longer, not ended; a command followed by filler up to sizeof(buf)
\* bytes; a line of sizeof(buf) - 1 bytes, which just fits, ended by LF; and
\* commands.
LongMessages ==
    { Filler(BUF_SIZE),
      Filler(BUF_SIZE + 3),
      NLine(<<2, 5, 255, 0, 0, 0>>) \o Filler(BUF_SIZE - Len(NLine(<<2, 5, 255, 0, 0, 0>>))),
      Filler(BUF_SIZE - 1) \o <<LF>>,
      NLine(<<2, 5, 255, 0, 0, 0>>) \o <<LF>>,
      NLine(<<5, 9, 0, 255, 255, 10>>) \o <<CR, LF>>,
      <<"A">> \o <<LF>>,
      <<LF>> }

NextLong ==
    \/ \E msg \in LongMessages : Send(msg)
    \/ Tick
    \/ ReadByte
    \/ IdleFlush
    \/ AttractTick

SpecLong == Init /\ [][NextLong]_vars

\* ---------------------------------------------------------------- Attract timing
\* A host that sends little, on a clock long enough for two attract ticks: a display
\* update, the resume command ended, between blanks and not ended, the diagnostic
\* line.
AttractMessages ==
    { NLine(<<2, 5, 255, 0, 0, 10>>) \o <<LF>>,
      <<"A", LF>>,
      <<SP, "A", TAB, LF>>,
      <<"A">>,
      <<"4", "2", LF>> }

NextAttract ==
    \/ \E msg \in AttractMessages : Send(msg)
    \/ Advance(MaxElapsedAttract)
    \/ ReadByte
    \/ IdleFlush
    \/ AttractTick

SpecAttract == Init /\ [][NextAttract]_vars

\* ---------------------------------------------------------------- Malformed N lines
\* N lines that are not N,idx,digit,r,g,b,dim with six integers: five fields, seven
\* fields, a field that is no number, an empty field, the directive alone
MalformedLines ==
    { <<"N", ",", "2", ",", "5", ",", "2", "5", "5", ",", "0", ",", "0">>,
      <<"N", ",", "0", ",", "5", ",", "2", "5", "5", ",", "0", ",", "0", ",", "0", ",", "7">>,
      <<"N", ",", "x", ",", "5", ",", "2", "5", "5", ",", "0", ",", "0", ",", "0">>,
      <<"n", ",", "1", ",", ",", "7", ",", "0", ",", "0", ",", "9", ",", "3">>,
      <<"N">> }

\* A host that sends malformed N lines, among a display update and the resume command
ParseMessages ==
    {l \o <<LF>> : l \in MalformedLines}
      \cup { NLine(<<5, 9, 0, 255, 255, 10>>) \o <<LF>>, <<"A", LF>> }

NextParse ==
    \/ \E msg \in ParseMessages : Send(msg)
    \/ Tick
    \/ ReadByte
    \/ IdleFlush
    \/ AttractTick

SpecParse == Init /\ [][NextParse]_vars

\* ---------------------------------------------------------------- rgbToEnum alone
\* the channel values rgbToEnum is called with
Channels == {0, 10, 73, 74, 127, 128, 200, 255}

\* rgbToEnum(r, g, b) is called with the triple drawn at the start
Quantize ==
    /\ qIn # <<>>
    /\ qOut = ""
    /\ \E bd \in Builds : qOut' = rgbToEnum(bd, qIn[1], qIn[2], qIn[3])
    /\ out' = <<>> /\ calls' = <<>>
    /\ UNCHANGED <<tubes, gotFirstCommand, buf, lastByteAt, lastAttract, pwm, now, rx, pc,
                   line, resumedAt, tickDelay, overflowed, lastN, sent, suppressed, qIn>>

InitRgb == Boot /\ qIn \in Channels \X Channels \X Channels /\ qOut = ""

NextRgb == Quantize

SpecRgb == InitRgb /\ [][NextRgb]_vars

\* ================================================================ Claims
\* A step dispatches the line l when line' = l: the step handed l to handleLine.
\* Field tuples a = <<idx, digit, r, g, b, dim>> range over NArgs.

\* the value a colour field v must be stored as
Saturated(v) == IF v < 0 THEN 0 ELSE IF v > 255 THEN 255 ELSE v

\* the SetNixie call of a render for tube i: the (NUM_TUBES - i)-th call
CallFor(cs, i) == cs[NUM_TUBES - i]

\* C1 as stated: a dispatched N,idx,digit,r,g,b,dim with idx in 0..5, digit in 0..9
\* and r,g,b in 0..255 leaves tube idx at exactly digit, lit, colour (r,g,b), no
\* comma and brightness dim, every other tube unchanged, the mode Active and no
\* error reply.
C1_AsStated ==
    [][line' # <<>> => \A a \in NArgs :
          (/\ line' = NLineOf[a]
           /\ a[1] \in 0..5 /\ a[2] \in 0..9
           /\ a[3] \in 0..255 /\ a[4] \in 0..255 /\ a[5] \in 0..255)
          => /\ tubes'[a[1]] = TubeState(a[2], a[3], a[4], a[5], TRUE, FALSE, a[6])
             /\ \A j \in Tubes \ {a[1]} : tubes'[j] = tubes[j]
             /\ gotFirstCommand' = TRUE
             /\ out' = <<>>]_vars

\* C1 amended: the same, with the brightness stored being dim modulo 256 (dim itself
\* when dim is in 0..255).
C1_TubeUpdate ==
    [][line' # <<>> => \A a \in NArgs :
          (/\ line' = NLineOf[a]
           /\ a[1] \in 0..5 /\ a[2] \in 0..9
           /\ a[3] \in 0..255 /\ a[4] \in 0..255 /\ a[5] \in 0..255)
          => /\ tubes'[a[1]] = TubeState(a[2], a[3], a[4], a[5], TRUE, FALSE, a[6] % 256)
             /\ \A j \in Tubes \ {a[1]} : tubes'[j] = tubes[j]
             /\ gotFirstCommand' = TRUE
             /\ out' = <<>>]_vars

\* N,5,9,0,255,255,10 was dispatched from Attract and tube 5 shows 9 in cyan, dimmed
C1_Witness ==
    /\ line = NLine(<<5, 9, 0, 255, 255, 10>>)
    /\ tubes[5] = TubeState(9, 0, 255, 255, TRUE, FALSE, 10)
    /\ tubes[0] = TubeState(0, 255, 0, 0, TRUE, FALSE, 0)
    /\ gotFirstCommand

\* C2 as stated: a dispatched N line with six integer fields whose idx is outside
\* 0..5 is rejected: ERR parse N line is the reply, and no tube, nor the mode flag,
\* nor the global brightness changes, and nothing is rendered.
C2_AsStated ==
    [][line' # <<>> => \A a \in NArgs :
          (line' = NLineOf[a] /\ a[1] \notin 0..5)
          => /\ out' = <<ERR_PARSE>>
             /\ tubes' = tubes
             /\ gotFirstCommand' = gotFirstCommand
             /\ pwm' = pwm
             /\ calls' = <<>>]_vars

\* C3 as stated: a dispatched N line with idx in 0..5 and digit outside 0..9 gets no
\* error reply and leaves the addressed tube lit, the render emitting lit = true
\* for it.
C3_AsStated ==
    [][line' # <<>> => \A a \in NArgs :
          (line' = NLineOf[a] /\ a[1] \in 0..5 /\ a[2] \notin 0..9)
          => /\ out' = <<>>
             /\ tubes'[a[1]].hv = TRUE
             /\ Len(calls') = NUM_TUBES + 1
             /\ CallFor(calls', a[1]).voltage = TRUE]_vars

\* C3 amended: such a line gets no error reply, and with d the digit field modulo
\* 256: if d > 9 (15, 10, -1) the tube is stored unlit with digit 0 and the render
\* emits lit = false and digit 0 for it; if d <= 9 (256) the tube is lit and shows d.
C3_BlankDigit ==
    [][line' # <<>> => \A a \in NArgs :
          (line' = NLineOf[a] /\ a[1] \in 0..5 /\ a[2] \notin 0..9)
          => LET d == a[2] % 256
             IN  /\ out' = <<>>
                 /\ tubes'[a[1]].hv = (d <= 9)
                 /\ tubes'[a[1]].digit = (IF d <= 9 THEN d ELSE 0)
                 /\ Len(calls') = NUM_TUBES + 1
                 /\ CallFor(calls', a[1]).tube = a[1]
                 /\ CallFor(calls', a[1]).voltage = (d <= 9)
                 /\ CallFor(calls', a[1]).number = (IF d <= 9 THEN d ELSE 0)]_vars

\* N,0,15,10,10,10,0 was dispatched: tube 0 is unlit and was rendered so
C3_Witness ==
    /\ line = NLine(<<0, 15, 10, 10, 10, 0>>)
    /\ tubes[0] = TubeState(0, 10, 10, 10, FALSE, FALSE, 0)
    /\ Len(calls) = NUM_TUBES + 1
    /\ CallFor(calls, 0).voltage = FALSE
    /\ out = <<>>

\* C4: a dispatched N line with idx in 0..5 gets no error reply and stores each of
\* r, g, b saturated on its own: below 0 as 0, above 255 as 255, else unchanged.
C4_Saturation ==
    [][line' # <<>> => \A a \in NArgs :
          (line' = NLineOf[a] /\ a[1] \in 0..5)
          => /\ out' = <<>>
             /\ tubes'[a[1]].r = Saturated(a[3])
             /\ tubes'[a[1]].g = Saturated(a[4])
             /\ tubes'[a[1]].b = Saturated(a[5])]_vars

\* N,5,9,-5,300,128,10 was dispatched: tube 5 holds (0, 255, 128)
C4_Witness ==
    /\ line = NLine(<<5, 9, -5, 300, 128, 10>>)
    /\ tubes[5].r = 0 /\ tubes[5].g = 255 /\ tubes[5].b = 128
    /\ out = <<>>

\* the fields of a line: the runs between its commas, empty ones included
RECURSIVE Fields(_)
Fields(s) ==
    IF tokLen(s) = Len(s) THEN <<s>>
    ELSE <<SubSeq(s, 1, tokLen(s))>> \o Fields(SubSeq(s, tokLen(s) + 2, Len(s)))

\* t starts with the text of an integer: blanks, an optional sign, a digit
IsIntText(t) ==
    LET u == ltrim(t)
        d == IF u # <<>> /\ Head(u) \in {"-", "+"} THEN Tail(u) ELSE u
    IN  d # <<>> /\ IsDigit(Head(d))

\* l is a valid display-update command: the directive N or n, then exactly six
\* fields that each start with an integer, the first integer in 0..5
ValidN(l) ==
    LET f == Fields(ltrim(rtrim(l)))
    IN  /\ Len(f) = 7
        /\ f[1] \in {<<"N">>, <<"n">>}
        /\ \A i \in 2..7 : IsIntText(f[i])
        /\ digitsValue(ltrim(f[2]), 0) \in 0..5 /\ Head(ltrim(f[2])) # "-"

\* l is exactly A or a after trimming
IsResumeLine(l) == ltrim(rtrim(l)) \in {<<"A">>, <<"a">>}

\* C5 as stated: gotFirstCommand is false after boot, goes from false to true only
\* in a step that dispatches a valid N command, and from true to false only in a
\* step that dispatches a line that is exactly A or a after trimming; every other
\* step leaves it as it is.
C5_AsStated ==
    /\ gotFirstCommand = FALSE
    /\ [][/\ (~gotFirstCommand /\ gotFirstCommand') => (line' # <<>> /\ ValidN(line'))
          /\ (gotFirstCommand /\ ~gotFirstCommand') => (line' # <<>> /\ IsResumeLine(line'))]_vars

\* What the code does guarantee of the flag: it goes from false to true only in a
\* step that dispatches a line starting with N or n and prints no error, and from
\* true to false only in a step that dispatches exactly A or a.
FlagLifecycle ==
    /\ gotFirstCommand = FALSE
    /\ [][/\ (~gotFirstCommand /\ gotFirstCommand')
               => (line' # <<>> /\ Head(ltrim(line')) \in {"N", "n"} /\ out' = <<>>)
          /\ (gotFirstCommand /\ ~gotFirstCommand') => (line' # <<>> /\ IsResumeLine(line'))]_vars

\* every tube shows the attract pattern: a digit 0..9, lit, red, no comma, brightness 0
AllAttract(tb) ==
    \A i \in Tubes :
        /\ tb[i].digit \in 0..9 /\ tb[i].hv = TRUE /\ tb[i].comma = FALSE
        /\ tb[i].r = 255 /\ tb[i].g = 0 /\ tb[i].b = 0
        /\ tb[i].dim = 0

\* C6: once an accepted N was followed by a dispatched A (resumedAt is set), the
\* mode is Attract and the last attract tick is not later than the A; every attract
\* check that runs 50 ms or more after the A, with no N accepted since, fires the
\* tick; and that tick leaves all 6 tubes at a digit 0..9, lit, colour (255,0,0),
\* brightness 0.
C6_TickAfterResume ==
    /\ [](resumedAt # NEVER =>
             ~gotFirstCommand /\ lastAttract <= resumedAt /\ resumedAt <= now)
    /\ [][(pc = "attract" /\ pc' = "serial" /\ resumedAt # NEVER
             /\ now - resumedAt >= ATTRACT_MS) => tickDelay' # NEVER]_vars
    /\ [](tickDelay # NEVER =>
             AllAttract(tubes) /\ ~gotFirstCommand /\ Len(calls) = NUM_TUBES + 1)

\* the tick fired exactly 50 ms after the A that followed an accepted N
C6_Witness ==
    /\ tickDelay = ATTRACT_MS
    /\ AllAttract(tubes)
    /\ sent = 2

\* C7: a step that dispatches a line that is exactly 42 after trimming prints the
\* fixed reply and changes no tube, nor the mode flag, nor the global brightness,
\* and renders nothing.
C7_FishFrame ==
    [][(line' # <<>> /\ ltrim(rtrim(line')) = <<"4", "2">>)
          => /\ out' = <<FISH>>
             /\ tubes' = tubes
             /\ gotFirstCommand' = gotFirstCommand
             /\ pwm' = pwm
             /\ calls' = <<>>]_vars

\* the line <TAB>42<SP> was dispatched in Active mode and answered
C7_Witness ==
    /\ line = <<TAB, "4", "2", SP>>
    /\ out = <<FISH>>
    /\ gotFirstCommand

\* the reader is about to take a byte that is no terminator
ReadsData == pc = "serial" /\ rx # <<>> /\ Head(rx) \notin {CR, LF}

\* the reader is about to take a terminator
ReadsTerminator == pc = "serial" /\ rx # <<>> /\ Head(rx) \in {CR, LF}

\* the fields a dispatched N line must store (C1, C3 and C4 together)
StoredTube(a) ==
    LET d == a[2] % 256
    IN  TubeState(IF d <= 9 THEN d ELSE 0, Saturated(a[3]), Saturated(a[4]), Saturated(a[5]),
                  d <= 9, FALSE, a[6] % 256)

C9_IdleFlush ==
    /\ [][(pc = "serial" /\ rx = <<>> /\ pc' = "attract")
            => IF blen > 0 /\ now - lastByteAt >= IDLE_PARSE_MS
               THEN /\ line' = buf
                    /\ buf' = <<>>
                    /\ \E bd \in Builds :
                          /\ tubes' = handleLine(buf, CurrentOn(bd)).tubes
                          /\ gotFirstCommand' = handleLine(buf, CurrentOn(bd)).gotFirstCommand
                          /\ pwm' = handleLine(buf, CurrentOn(bd)).pwm
                          /\ out' = handleLine(buf, CurrentOn(bd)).out
                          /\ calls' = handleLine(buf, CurrentOn(bd)).calls
               ELSE /\ line' = <<>>
                    /\ buf' = buf
                    /\ out' = <<>> /\ calls' = <<>>
                    /\ tubes' = tubes /\ gotFirstCommand' = gotFirstCommand /\ pwm' = pwm]_vars
    /\ [][(blen > 0 /\ now - lastByteAt < IDLE_PARSE_MS /\ line' # <<>>) => ReadsTerminator]_vars

\* N,2,5,255,0,0,0 arrived without a terminator and was dispatched by the idle
\* check, exactly 30 ms after its last byte
C9_Witness ==
    /\ pc = "attract"
    /\ line = NLine(<<2, 5, 255, 0, 0, 0>>)
    /\ buf = <<>>
    /\ now - lastByteAt = IDLE_PARSE_MS
    /\ tubes[2] = TubeState(5, 255, 0, 0, TRUE, FALSE, 0)
    /\ gotFirstCommand

\* C10: a step that dispatches an accepted N command which is also the line
\* dispatched just before it (no other dispatch and no attract tick in between)
\* changes no tube, nor the mode flag, nor the global brightness: twice is once.
C10_Idempotent ==
    [][(line' # <<>> /\ line' = lastN)
          => /\ tubes' = tubes
             /\ gotFirstCommand' = gotFirstCommand
             /\ pwm' = pwm
             /\ lastN' = lastN]_vars

\* N,5,9,-5,300,128,10 was dispatched twice in succession
C10_Witness ==
    /\ line = NLine(<<5, 9, -5, 300, 128, 10>>)
    /\ lastN = line
    /\ sent = 2
    /\ rx = <<>>
    /\ tubes[5] = TubeState(9, 0, 255, 128, TRUE, FALSE, 10)
    /\ pwm = 10

\* the squared Euclidean distance of the triple q to palette entry i
SqDist(i, q) ==
    (q[1] - pal[i].r) * (q[1] - pal[i].r) + (q[2] - pal[i].g) * (q[2] - pal[i].g)
       + (q[3] - pal[i].b) * (q[3] - pal[i].b)

\* the lowest-indexed palette entry at minimum squared distance of q
Nearest(q) ==
    pal[CHOOSE i \in 1..Len(pal) :
           /\ \A j \in 1..Len(pal) : SqDist(i, q) <= SqDist(j, q)
           /\ \A j \in 1..(i - 1) : SqDist(j, q) > SqDist(i, q)]

\* C11 as stated: for every triple of channel values, rgbToEnum returns the palette
\* entry at minimum squared Euclidean distance among blue, green, red, white, RuB,
\* RuG, BuG, the lowest-indexed one on ties; an input equal to an entry returns it.
C11_AsStated ==
    qOut # "" => qOut = Nearest(qIn).ev

\* What holds of rgbToEnum on every build: a triple equal to a palette entry returns
\* that entry, and a triple with every channel in 74..181, within 181 of 0 and of
\* 255, returns the nearest entry; and on a build that forms the products in 32
\* bits every triple returns the nearest entry.
C11_NearestWithoutOverflow ==
    qOut # "" =>
       /\ (\E i \in 1..Len(pal) : <<pal[i].r, pal[i].g, pal[i].b>> = qIn) => qOut = Nearest(qIn).ev
       /\ rgbToEnum("wide", qIn[1], qIn[2], qIn[3]) = Nearest(qIn).ev
       /\ (\A k \in 1..3 : qIn[k] \in 74..181) => qOut = Nearest(qIn).ev

\* cs is one render of the tube store tb: six SetNixie calls, for tubes 5, 4, 3, 2,
\* 1, 0 in that order, each with that tube's stored digit, quantised colour, lit
\* flag, comma and brightness, then one Latch
OneRender(cs, tb) ==
    /\ Len(cs) = 7
    /\ \A k \in 1..6 :
          /\ cs[k].op = "SetNixie"
          /\ cs[k].tube = 6 - k
          /\ cs[k].number = tb[6 - k].digit
          /\ \E bd \in Builds : cs[k].color = rgbToEnum(bd, tb[6 - k].r, tb[6 - k].g, tb[6 - k].b)
          /\ cs[k].voltage = tb[6 - k].hv
          /\ cs[k].comma = tb[6 - k].comma
          /\ cs[k].dimming = tb[6 - k].dim
    /\ cs[7].op = "Latch"

\* C12: the transport calls of every step are none, or exactly one render of the
\* tube store as the step leaves it (setup: two such renders in a row); a step
\* that issues calls is the dispatch of an N line that got no error reply, or the
\* attract block in Attract mode.
C12_RenderOrder ==
    /\ [](\/ calls = <<>>
          \/ OneRender(calls, tubes)
          \/ /\ Len(calls) = 14 /\ now = BOOT_MS /\ sent = 0
             /\ OneRender(SubSeq(calls, 1, 7), tubes)
             /\ OneRender(SubSeq(calls, 8, 14), tubes))
    /\ [][calls' # <<>> =>
            /\ Len(calls') = 7
            /\ \/ line' # <<>> /\ Head(ltrim(line')) \in {"N", "n"} /\ out' = <<>>
               \/ pc = "attract" /\ ~gotFirstCommand /\ line' = <<>>]_vars

\* N,0,15,10,10,10,0 was dispatched after N,5,9,0,255,255,10: the render starts
\* with tube 5 (9, cyan, lit, brightness 10) and ends with tube 0 (unlit), then Latch
C12_Witness ==
    /\ line = NLine(<<0, 15, 10, 10, 10, 0>>)
    /\ Len(calls) = 7
    /\ calls[1] = [op |-> "SetNixie", tube |-> 5, number |-> 9, color |-> "EASY_NIXIE_BuG",
                   voltage |-> TRUE, comma |-> FALSE, dimming |-> 10]
    /\ calls[6].tube = 0 /\ calls[6].voltage = FALSE /\ calls[6].number = 0
    /\ calls[7] = LatchCall

\* t is the text of an integer: blanks, an optional sign, then digits only
IsInteger(t) ==
    LET u == ltrim(t)
        d == IF u # <<>> /\ Head(u) \in {"-", "+"} THEN Tail(u) ELSE u
    IN  d # <<>> /\ \A k \in 1..Len(d) : IsDigit(d[k])

\* l begins with N or n after trimming
IsNLine(l) == ltrim(rtrim(l)) # <<>> /\ Head(ltrim(rtrim(l))) \in {"N", "n"}

\* an N line that is malformed: not exactly six fields after the directive, or a
\* field that is not the text of an integer
Malformed(l) ==
    LET f == Fields(ltrim(rtrim(l)))
    IN  Len(f) # 7 \/ \E i \in 2..Len(f) : ~IsInteger(f[i])

\* C13 as stated: a dispatched line beginning with N or n that is malformed gets the
\* reply ERR parse N line and changes no tube, nor the mode flag, nor the global
\* brightness, and renders nothing.
C13_AsStated ==
    [][(line' # <<>> /\ IsNLine(line') /\ Malformed(line'))
          => /\ out' = <<ERR_PARSE>>
             /\ tubes' = tubes
             /\ gotFirstCommand' = gotFirstCommand
             /\ pwm' = pwm
             /\ calls' = <<>>]_vars

\* What the code does guarantee: a dispatched line beginning with N or n with fewer
\* than six non-empty fields after the directive gets ERR parse N line and changes
\* nothing; and so does every N line that gets that reply.
C13_TooFewFields ==
    [][(line' # <<>> /\ IsNLine(line')
          /\ (Len(strtok(ltrim(rtrim(line')))) < 7 \/ out' # <<>>))
          => /\ out' = <<ERR_PARSE>>
             /\ tubes' = tubes
             /\ gotFirstCommand' = gotFirstCommand
             /\ pwm' = pwm
             /\ calls' = <<>>]_vars

\* C14: in Active mode (gotFirstCommand true) the attract block of a loop cycle does
\* nothing, whatever time has passed: no tube, brightness or lastAttract change and
\* no render; and a step that starts in Active mode changes a tube or the global
\* brightness only by dispatching an N line that gets no error reply.
C14_ActiveSuppressesAttract ==
    /\ [][(gotFirstCommand /\ pc = "attract" /\ pc' = "serial")
            => /\ tubes' = tubes /\ pwm' = pwm /\ lastAttract' = lastAttract
               /\ calls' = <<>> /\ gotFirstCommand']_vars
    /\ [][(gotFirstCommand /\ (tubes' # tubes \/ pwm' # pwm))
            => (line' # <<>> /\ IsNLine(line') /\ out' = <<>>)]_vars
    /\ [][(gotFirstCommand /\ ~gotFirstCommand') => (line' # <<>> /\ IsResumeLine(line'))]_vars

\* the attract block has just run in Active mode, 50 ms after the last attract tick,
\* and tube 2 still shows what N,2,5,255,0,0,10 stored
C14_Witness ==
    /\ suppressed
    /\ gotFirstCommand
    /\ now - lastAttract >= ATTRACT_MS
    /\ tubes[2] = TubeState(5, 255, 0, 0, TRUE, FALSE, 10)
    /\ pwm = 10
    /\ calls = <<>>

\* C15 as stated: a step that reads CR or LF with the buffer empty dispatches
\* nothing and changes no state of the firmware (tube store, mode flag, brightness,
\* buffer, timestamps); and a step that reads CR or LF with the buffer non-empty
\* dispatches the buffer and empties it, so that the LF of a CR LF pair, or a
\* terminator that follows an idle flush, finds the buffer empty.
C15_AsStated ==
    /\ [][(ReadsTerminator /\ blen = 0)
            => /\ line' = <<>> /\ out' = <<>> /\ calls' = <<>>
               /\ tubes' = tubes /\ gotFirstCommand' = gotFirstCommand /\ pwm' = pwm
               /\ buf' = buf /\ lastAttract' = lastAttract
               /\ lastByteAt' = lastByteAt]_vars
    /\ [][(ReadsTerminator /\ blen > 0) => (line' = buf /\ buf' = <<>>)]_vars
    /\ [](line # <<>> => buf = <<>>)

\* C15 amended: the same, except that the step that reads CR or LF with the buffer
\* empty does write the last-byte timestamp (lastByteAt becomes the current time),
\* which nothing reads while the buffer is empty.
C15_EmptyTerminator ==
    /\ [][(ReadsTerminator /\ blen = 0)
            => /\ line' = <<>> /\ out' = <<>> /\ calls' = <<>>
               /\ tubes' = tubes /\ gotFirstCommand' = gotFirstCommand /\ pwm' = pwm
               /\ buf' = buf /\ lastAttract' = lastAttract
               /\ lastByteAt' = now]_vars
    /\ [][(ReadsTerminator /\ blen > 0) => (line' = buf /\ buf' = <<>>)]_vars
    /\ [](line # <<>> => buf = <<>>)

\* N,5,9,0,255,255,10 CR LF, which the host sends only with that ending, was the
\* first message: the CR dispatched it, and the LF has been read with the buffer
\* empty
C15_Witness ==
    /\ sent = 1 /\ now = BOOT_MS
    /\ pc = "serial"
    /\ rx = <<>> /\ buf = <<>> /\ line = <<>> /\ out = <<>> /\ calls = <<>>
    /\ lastByteAt = now
    /\ gotFirstCommand
    /\ tubes[5] = TubeState(9, 0, 255, 255, TRUE, FALSE, 10)

\* C16 as stated: a dispatched N,idx,digit,r,g,b,dim that gets no error reply sets
\* the global brightness to dim and the stored brightness of the tube it writes to
\* dim, leaving the stored brightness of every other tube; a dispatched N line that
\* gets an error reply leaves the global brightness.
C16_AsStated ==
    /\ [][line' # <<>> => \A a \in NArgs :
            (line' = NLineOf[a] /\ out' = <<>>)
            => /\ pwm' = a[6]
               /\ tubes'[a[1] % 256].dim = a[6]
               /\ \A j \in Tubes \ {a[1] % 256} : tubes'[j].dim = tubes[j].dim]_vars
    /\ [][(line' # <<>> /\ IsNLine(line') /\ out' # <<>>) => pwm' = pwm]_vars

\* C16 amended: the same with the brightness written, globally and to the tube,
\* being dim modulo 256 (dim itself when dim is in 0..255).
C16_GlobalBrightness ==
    /\ [][line' # <<>> => \A a \in NArgs :
            (line' = NLineOf[a] /\ out' = <<>>)
            => /\ pwm' = a[6] % 256
               /\ tubes'[a[1] % 256].dim = a[6] % 256
               /\ \A j \in Tubes \ {a[1] % 256} : tubes'[j].dim = tubes[j].dim]_vars
    /\ [][(line' # <<>> /\ IsNLine(line') /\ out' # <<>>) => pwm' = pwm]_vars

\* N,2,5,255,0,0,255 was dispatched after N,5,9,0,255,255,10: the global brightness
\* and that of tube 2 are 255, tube 5 keeps 10 and tube 0 keeps 0
C16_Witness ==
    /\ line = NLine(<<2, 5, 255, 0, 0, 255>>)
    /\ pwm = 255
    /\ tubes[2].dim = 255
    /\ tubes[5] = TubeState(9, 0, 255, 255, TRUE, FALSE, 10)
    /\ tubes[0].dim = 0

\* C17: in Attract mode (gotFirstCommand false when the attract block is reached)
\* the attract block fires the tick if and only if 50 ms or more have passed since
\* lastAttract; a firing tick leaves every tube at a digit 0..9, lit, colour
\* (255,0,0), no comma, brightness 0, the global brightness 0, exactly one render
\* of that store, and lastAttract at the current time; a block that does not fire
\* changes none of these; neither touches the line buffer, whatever it holds.
C17_AttractTick ==
    /\ [][(~gotFirstCommand /\ pc = "attract" /\ pc' = "serial")
            => IF now - lastAttract >= ATTRACT_MS
               THEN /\ AllAttract(tubes')
                    /\ pwm' = 0
                    /\ OneRender(calls', tubes')
                    /\ lastAttract' = now
                    /\ buf' = buf /\ ~gotFirstCommand'
               ELSE /\ tubes' = tubes /\ pwm' = pwm /\ calls' = <<>>
                    /\ lastAttract' = lastAttract
                    /\ buf' = buf /\ ~gotFirstCommand']_vars
    /\ [](lastAttract >= BOOT_MS /\ lastAttract <= now)

\* an attract tick has just fired, 100 ms or more after boot, in a loop cycle that
\* read the byte A, which is still in the buffer
C17_Witness ==
    /\ line = <<>>
    /\ Len(calls) = 7
    /\ lastAttract = now
    /\ now >= BOOT_MS + 2 * ATTRACT_MS
    /\ AllAttract(tubes) /\ pwm = 0
    /\ buf = <<"A">> /\ lastByteAt = now

\* C18: a step that dispatches a line that is exactly A or a after trimming leaves
\* the mode Attract and prints the acknowledgement, changes no tube (nor the global
\* brightness) and renders nothing; and in Attract mode a tube changes only when
\* the attract tick fires or an N line is accepted.
C18_ResumeFrame ==
    /\ [][(line' # <<>> /\ IsResumeLine(line'))
            => /\ ~gotFirstCommand'
               /\ out' = <<RESUMED>>
               /\ tubes' = tubes
               /\ pwm' = pwm
               /\ calls' = <<>>]_vars
    /\ [][(~gotFirstCommand /\ tubes' # tubes)
            => \/ pc = "attract" /\ pc' = "serial" /\ now - lastAttract >= ATTRACT_MS
               \/ line' # <<>> /\ IsNLine(line') /\ out' = <<>>]_vars

\* the line <SP>A<TAB> was dispatched in Active mode: the mode is Attract, and tube 2
\* still shows what N,2,5,255,0,0,10 stored
C18_Witness ==
    /\ line = <<SP, "A", TAB>>
    /\ out = <<RESUMED>>
    /\ ~gotFirstCommand
    /\ resumedAt = now
    /\ tubes[2] = TubeState(5, 255, 0, 0, TRUE, FALSE, 10)
    /\ pwm = 10

\* C19: in every reachable state every tube has a stored digit of at most 9 and no
\* comma, and an unlit tube has stored digit 0; so no tube is lit with a digit
\* above 9, and what render hands to the transport is the stored digit.
C19_TubeStoreInvariant ==
    \A i \in Tubes :
        /\ tubes[i].digit \in 0..9
        /\ tubes[i].comma = FALSE
        /\ (~tubes[i].hv => tubes[i].digit = 0)
        /\ ~(tubes[i].hv /\ tubes[i].digit > 9)
        /\ shown(tubes[i]) = tubes[i].digit

\* N,0,-1,10,10,10,0 (digit 255 after the cast) was dispatched after
\* N,5,9,0,255,255,10: tube 0 is unlit with digit 0, tube 5 lit with 9
C19_Witness ==
    /\ line = NLine(<<0, 0 - 1, 10, 10, 10, 0>>)
    /\ tubes[0] = TubeState(0, 10, 10, 10, FALSE, FALSE, 0)
    /\ tubes[5] = TubeState(9, 0, 255, 255, TRUE, FALSE, 10)

\* C20: in every reachable state blen is at most sizeof(buf) - 1 = 191, so that
\* buf[blen] = 0 is written inside the buffer; and blen is 0 in the state a
\* dispatch leaves (by a terminator or by the idle flush) and in the state an
\* overflow leaves.
C20_BufferBound ==
    /\ blen <= BUF_SIZE - 1
    /\ Len(line) <= BUF_SIZE - 1
    /\ (line # <<>> => blen = 0)
    /\ (out = <<ERR_OVERFLOW>> => blen = 0)

\* a line of 191 bytes, all the buffer can hold, was dispatched by its terminator
C20_Witness ==
    /\ Len(line) = BUF_SIZE - 1
    /\ blen = 0
    /\ lastByteAt = now
    /\ ~overflowed

====
